---- MODULE Spec2Model ----
(***************************************************************************)
(* A model of the genetic-algorithm engine of ofunc/ga.  The repository    *)
(* holds two engines: the sequential one (src/ga.go) and the concurrent    *)
(* one with a fork-join worker pool (src/unnamed/part_000).  One run of    *)
(* the model constructs one engine of either kind (variable `variant`)     *)
(* and then drives it with Next() and Evolve(k, max) calls.                *)
(*                                                                         *)
(* The goroutines of do() interleave step by step.  A step of a goroutine   *)
(* runs from one synchronisation (rand()'s Lock, the end of f(c, i)) to    *)
(* the next; what it does in between it does on its own variables, on its  *)
(* own indices and on data that the parallel section only reads.           *)
(*                                                                         *)
(* float64 values are modelled in fixed point: the integer v stands for    *)
(* the real v / ONE.  Products and quotients truncate as the operators     *)
(* mul and div say, in the order the code evaluates them.                  *)
(*                                                                         *)
(* Spec is the whole engine.  The smaller specifications follow one part   *)
(* of it over the same variables: SpecEvolve an engine driven by Evolve    *)
(* only, with its scheduling; SpecWide the concurrent engine on a          *)
(* population larger than the number of goroutines; SpecEq the sequential  *)
(* engine on populations of equal fitness; SpecSel select2 on its own;     *)
(* SpecPm the mutation probability over a sequence of deviations.          *)
(***************************************************************************)
EXTENDS Integers, Sequences, FiniteSets, TLC

\* ------------------------------------------------------------------ bounds

\* Largest number of generation steps (Next calls) of one run.
MaxGen == 2
\* Largest number of workers NC of the concurrent engine.
MaxNC == 2

\* Fixed-point unit: the integer ONE stands for 1.0.
ONE == 10000

\* math.Inf(-1), the elite fitness before any entity was seen.
NegInf == -1000000
\* The float64 NaN (0/0 in adjust for an empty population).
NaN == -999999
\* The nil Entity.
Nil == 0

\* The entities the factory, Crossover and Mutate can return, and their
\* fitness (-1, 0, 0).  Two of them tie in fitness and differ in identity.
\* Probes are entities of further fitness values (-2, 0.1, 0.3, 0.7, 1.5),
\* for factories that fill a population with one of them.
Entities == 1..3
FitTable == <<-ONE, 0, 0,
              -2 * ONE, ONE \div 10, (3 * ONE) \div 10, (7 * ONE) \div 10,
              (3 * ONE) \div 2>>
Probes == 4 .. Len(FitTable)

\* The population sizes of the engines that a factory of one entity fills.
EqSizes == 1 .. 3

\* The population sizes New is called with.
Sizes == 0 .. 2

\* The population sizes of the wider concurrent engine.
WideSizes == {1, 3}

\* The standard deviations of the populations the mutation probability is
\* followed over (0.02, 0.5, 1, 2), and the number of generation steps.
Stds == {ONE \div 50, ONE \div 2, ONE, 2 * ONE}
PmSteps == 3

\* select2 on its own: the largest population, the entities and the weights
\* of the populations it is applied to, and its draws: 0, 0.5 and the
\* largest value below 1.
SelN == 3
SelEntities == {1, 2}
Weights == {ONE \div 4, ONE \div 2}
SelDraws == {0, ONE \div 2, ONE - 1}
\* The float64 operations between the weights and the target of select2's
\* scan (the partial sums and their total, the product with the draw) round;
\* the fixed-point ones do not.  The weight sum select2 reads is the exact
\* sum of the weights give or take this many units.
SumErr == 2

\* The values a draw from the uniform [0,1) generator can take.
Draws == {0, ONE \div 2}

\* The arguments Evolve is called with.
Ks == -1..2
Maxes == -1..MaxGen

\* ------------------------------------------------- the Entity capability

\* Entity.Fitness(): pure, a fixed value per entity (in fixed point).
Fitness(e) == FitTable[e]

\* Entity.Crossover(other): the engine only requires that it returns an
\* entity; any entity is possible.
Crossover(x, y) == Entities

\* Entity.Crossover(other, weight) of the concurrent engine.
CrossoverW(x, y, w) == Entities

\* Entity.Mutate(): any entity is possible.
Mutate(z) == Entities

\* ------------------------------------------------------------ arithmetic

\* float64 product and quotient of two fixed-point numbers.
mul(a, b) == (a * b) \div ONE
div(a, b) == (a * ONE) \div b

RECURSIVE isqrt(_, _, _)
isqrt(lo, hi, x) ==
  IF lo >= hi THEN lo
  ELSE CHOOSE r \in {IF mid * mid <= x THEN isqrt(mid, hi, x)
                     ELSE isqrt(lo, mid - 1, x) :
                     mid \in {(lo + hi + 1) \div 2}} : TRUE

\* math.Sqrt of a positive fixed-point number.
Sqrt(v) == isqrt(0, 4 * ONE, v * ONE)

\* e^-q for the whole numbers q = 0, 1, 2, ...
ExpNegInt == <<10000, 3679, 1353, 498, 183, 67, 25, 9, 3, 1>>

\* e^-r for 0 <= r < 1, by its series.
ExpNegFrac(r) ==
  LET r2 == mul(r, r)
      r3 == mul(r2, r)
      r4 == mul(r3, r)
      r5 == mul(r4, r)
  IN ONE - r + r2 \div 2 - r3 \div 6 + r4 \div 24 - r5 \div 120

\* math.Exp(-a) is 0 for a above 745.1332 and positive up to there.
ExpUnderflow == 7451332

\* e^-a for a >= 0.  The float is positive until it underflows to 0: a
\* positive value below the fixed-point unit is kept as the smallest
\* positive fixed-point number, 1.
NegExp(a) ==
  LET q == a \div ONE
      e == IF q >= Len(ExpNegInt) THEN 0
           ELSE mul(ExpNegInt[q + 1], ExpNegFrac(a % ONE))
  IN IF a > ExpUnderflow THEN 0
     ELSE IF e < 1 THEN 1
     ELSE e

\* math.Exp.
Exp(z) ==
  IF z <= 0 THEN NegExp(-z)
  ELSE IF NegExp(z) = 0 THEN 10 * ONE * ONE
  ELSE (ONE * ONE) \div NegExp(z)

\* The logistic weight 1 / (1 + exp((mean - f) / std)).
Logistic(f, m, s) == div(ONE, ONE + Exp(div(m - f, s)))

\* sum(xs) over a function xs with domain 0..k-1.
RECURSIVE sumTo(_, _)
sumTo(xs, k) == IF k = 0 THEN 0 ELSE sumTo(xs, k - 1) + xs[k - 1]

sum(xs) == sumTo(xs, Cardinality(DOMAIN xs))

\* max(xs): the first index holding the largest value, and that value.
RECURSIVE maxFrom(_, _, _, _)
maxFrom(xs, i, k, m) ==
  IF i >= Cardinality(DOMAIN xs) THEN <<k, m>>
  ELSE IF xs[i] > m THEN maxFrom(xs, i + 1, i, xs[i])
  ELSE maxFrom(xs, i + 1, k, m)

\* max with the index of the largest value dropped: always index 0.
maxAtZero(xs) == <<0, maxFrom(xs, 0, 0, NegInf)[2]>>

max(xs) == maxFrom(xs, 0, 0, NegInf)

\* ----------------------------------------------------------------- state

VARIABLES
  variant,    \* "none" before New, then "seq" (src/ga.go) or "par" (part_000)
  pc,         \* where the calling goroutine is
  caller,     \* the call the running Next / adjust belongs to
  ret,        \* the call that returned last
  n,          \* GA.n
  NC,         \* the package variable NC
  entities,   \* GA.entities
  tentities,  \* GA.tentities
  fentities,  \* GA.fentities
  fsum,       \* GA.fsum
  elite,      \* GA.elite
  felite,     \* GA.felite (sequential), GA.fitness (concurrent)
  mean,       \* GA.mean (sequential), adjust's local mean (concurrent)
  std,        \* GA.std (sequential), adjust's local std (concurrent)
  std0,       \* GA.std0 (sequential)
  pm,         \* GA.pm (concurrent), Next's local pm (sequential)
  base,       \* GA.base (concurrent)
  mutex,      \* GA.mutex: -1 when free, else the worker holding it
  slot,       \* the loop index of the sequential Next
  wpc,        \* per worker: its place in the function it runs
  wi,         \* per worker: the index i it is at in do's loop
  wrx,        \* per worker: select2's rx
  wz,         \* per worker: the offspring z
  sms,        \* adjust's per-worker sums
  svs,        \* adjust's per-worker sums of squares
  mfs,        \* adjust's per-worker maxima
  mes,        \* adjust's per-worker best entities
  fsums,      \* adjust's per-worker weight sums
  ek,         \* Evolve's k
  emax,       \* Evolve's max
  ei,         \* Evolve's i
  ej,         \* Evolve's j
  efit,       \* Evolve's local fitness (concurrent)
  eelite,     \* Evolve's local elite (sequential)
  conv,       \* Evolve's last result: converged
  gen,        \* history: the generation steps begun in this run
  egens,      \* history: the generation steps the current Evolve call ran
  hist,       \* history: per generation of the current Evolve call, whether
              \*          it changed the elite
  changed,    \* history: whether the last generation step changed the elite
  seenBest,   \* history: the largest fitness of any entity the live
              \*          population ever held
  filled,     \* history: the slots of the working buffer written in the
              \*          running generation step
  runs,       \* history: per index i, the goroutines that ran f(c, i) in the
              \*          running (or last) parallel section, in order
  acc,        \* history: the accesses <<goroutine, "r" or "w", array, index>>
              \*          the goroutines of that section made to shared state
  sel         \* the last select2 call applied on its own: its draws and what
              \*          it returned

engine == <<variant, n, NC, entities, tentities, fentities, fsum, elite,
            felite, mean, std, std0, pm, base>>
workers == <<mutex, wpc, wi, wrx, wz, sms, svs, mfs, mes, fsums>>
driver == <<pc, caller, ret, slot, ek, emax, ei, ej, efit, eelite, conv>>
history == <<gen, egens, hist, changed, seenBest, filled, runs, acc, sel>>
vars == <<engine, workers, driver, history>>

\* The array of length 0.
Empty == [i \in {} |-> 0]

Idx == 0 .. n - 1
Workers == 0 .. NC - 1

Max2(a, b) == IF a >= b THEN a ELSE b

\* The largest fitness in a population (NegInf for an empty one).
RECURSIVE bestUpTo(_, _)
bestUpTo(ents, k) ==
  IF k = 0 THEN NegInf
  ELSE Max2(bestUpTo(ents, k - 1),
            IF ents[k - 1] = Nil THEN NegInf ELSE Fitness(ents[k - 1]))

BestOf(ents) == bestUpTo(ents, Cardinality(DOMAIN ents))

\* No select2 call was applied yet.
NoSel == [fn |-> "none", a |-> 0, b |-> 0, x |-> Nil, y |-> Nil, xi |-> -1,
          yi |-> -1, wx |-> 0, wy |-> 0, w |-> 0]

\* No population, no elite.
NoPopulation ==
  /\ n = 0 /\ NC = 1
  /\ entities = Empty /\ tentities = Empty /\ fentities = Empty
  /\ fsum = 0 /\ elite = Nil /\ felite = NegInf

\* No goroutine of do, no call of Next or Evolve, nothing recorded.
NoCall ==
  /\ caller = "none" /\ ret = "none"
  /\ mutex = -1 /\ slot = 0
  /\ wpc = Empty /\ wi = Empty /\ wrx = Empty /\ wz = Empty
  /\ sms = Empty /\ svs = Empty /\ mfs = Empty /\ mes = Empty /\ fsums = Empty
  /\ ek = 0 /\ emax = 0 /\ ei = 0 /\ ej = 0 /\ efit = NegInf /\ eelite = Nil
  /\ conv = FALSE
  /\ gen = 0 /\ egens = 0 /\ hist = <<>> /\ changed = FALSE
  /\ seenBest = NegInf /\ filled = {}
  /\ runs = Empty /\ acc = {} /\ sel = NoSel

Init ==
  /\ variant = "none" /\ pc = "start"
  /\ NoPopulation /\ NoCall
  /\ mean = 0 /\ std = 0 /\ std0 = 0 /\ pm = 0 /\ base = 0

\* No Evolve call is running or has just returned: its locals are gone.
NoEvolve ==
  /\ ek' = 0 /\ emax' = 0 /\ ei' = 0 /\ ej' = 0
  /\ efit' = NegInf /\ eelite' = Nil /\ conv' = FALSE
  /\ egens' = 0 /\ hist' = <<>>

\* ------------------------------------------- the sequential engine (ga.go)

\* seqBetter with <= for <: a tie replaces the elite.
seqBetterOrTie(cur, f) == cur <= f

\* Whether a fitness f replaces the elite (ga.go line 101).
seqBetter(cur, f) == cur < f

\* fitness(), the loop of lines 92-104: the raw fitness of each entity, the
\* running mean and second moment, and the elite.
RECURSIVE seqScan(_, _)
seqScan(ents, k) ==
  IF k = 0
  THEN [mean |-> 0, std2 |-> 0, elite |-> elite, felite |-> felite,
        f |-> Empty]
  ELSE LET p == seqScan(ents, k - 1)
           i == k - 1
           x == ents[i]
           f == Fitness(x)
           k1 == div(ONE, (i + 1) * ONE)
           k2 == ONE - k1
           better == seqBetter(p.felite, f)
       IN [mean |-> mul(k1, f) + mul(k2, p.mean),
           std2 |-> mul(k1, mul(f, f)) + mul(k2, p.std2),
           elite |-> IF better THEN x ELSE p.elite,
           felite |-> IF better THEN f ELSE p.felite,
           f |-> [j \in 0 .. i |-> IF j = i THEN f ELSE p.f[j]]]

\* sigmoid(): every raw fitness replaced by its weight, and their sum.
sigmoid(fs, m, s) ==
  LET w == [i \in DOMAIN fs |-> Logistic(fs[i], m, s)]
  IN [fentities |-> w, fsum |-> sum(w)]

\* fitness() on the population ents: the fields it leaves behind.
fitnessOf(ents) ==
  LET stdOf(p) ==
        LET v == p.std2 - mul(p.mean, p.mean)
        IN IF v > 0 THEN Sqrt(v) ELSE ONE
      fields(p, s) ==
        LET g == sigmoid(p.f, p.mean, s)
        IN [mean |-> p.mean, std |-> s, elite |-> p.elite,
            felite |-> p.felite, fentities |-> g.fentities, fsum |-> g.fsum]
  IN CHOOSE r \in UNION {{fields(p, s) : s \in {stdOf(p)}} :
                         p \in {seqScan(ents, Cardinality(DOMAIN ents))}} :
       TRUE

\* select2 with y left nil until the scan finds it.
yUnset(ents) == Nil

\* select2's y before the scan: the last entity of the population (ga.go
\* line 130, part_000 line 146).
yDefault(ents) == ents[Cardinality(DOMAIN ents) - 1]

\* select2() of ga.go, lines 124-145.  The scan from index i on; st holds
\* f0, x, y and, for the record, the indices xi, yi the scan took them from
\* (-1: not from the scan).
RECURSIVE seqSelScan(_, _, _, _, _, _)
seqSelScan(ents, fents, i, st, d, r2) ==
  IF i >= Cardinality(DOMAIN fents) THEN st
  ELSE LET f == fents[i] IN
       IF st.f0 <= f
       THEN IF st.x = ents[0]
            THEN seqSelScan(ents, fents, i + 1,
                            [st EXCEPT !.x = ents[i], !.xi = i,
                                       !.f0 = st.f0 + d - mul(f, r2)],
                            d, r2)
            ELSE [st EXCEPT !.y = ents[i], !.yi = i]
       ELSE seqSelScan(ents, fents, i + 1, [st EXCEPT !.f0 = st.f0 - f], d, r2)

seqSelect2(ents, fents, fs, a, b) ==
  LET r1 == IF a > b THEN b ELSE a
      r2 == IF a > b THEN a ELSE b
      nn == Cardinality(DOMAIN ents)
  IN seqSelScan(ents, fents, 0,
                [f0 |-> mul(fs, r1), x |-> ents[0], y |-> yDefault(ents),
                 xi |-> -1, yi |-> -1],
                mul(fs, r2 - r1), r2)

\* The fields fitness() writes, taken from the record fitnessOf returns.
SetFitness(r) ==
  /\ mean' = r.mean /\ std' = r.std
  /\ elite' = r.elite /\ felite' = r.felite
  /\ fentities' = r.fentities /\ fsum' = r.fsum

\* New(n, g) of ga.go: n entities from the factory, fitness(), std0.  S
\* holds the sizes n, E the entities the factory can return, and with eq
\* the factory returns the same entity every time.
SeqNewOf(S, E, eq) ==
  /\ pc = "start"
  /\ \E nn \in S :
     \E ents \in [0 .. nn - 1 -> E] :
       LET r == fitnessOf(ents) IN
       /\ eq => \A i \in 0 .. nn - 1 : ents[i] = ents[0]
       /\ variant' = "seq" /\ n' = nn
       /\ entities' = ents
       /\ tentities' = [i \in 0 .. nn - 1 |-> Nil]
       /\ SetFitness(r)
       /\ std0' = r.std
       /\ seenBest' = BestOf(ents)
  /\ pc' = "idle" /\ ret' = "New"
  /\ UNCHANGED <<NC, pm, base, workers, caller, slot, ek, emax, ei, ej, efit,
                 eelite, conv, gen, egens, hist, changed, filled, runs, acc,
                 sel>>

\* The mutation probability of a generation step (ga.go line 63), for the
\* standard deviation s and the baseline s0.
seqPm(s, s0) == Exp(div(-10 * s, s0))

SeqNew == SeqNewOf(Sizes, Entities, FALSE)

\* Next() of ga.go, line 63: pm from the diversity ratio, then the loop.
SeqBeginNext(who) ==
  /\ pm' = seqPm(std, std0)
  /\ slot' = 0
  /\ pc' = "snext" /\ caller' = who /\ ret' = "none"
  /\ gen' = gen + 1 /\ filled' = {}
  /\ UNCHANGED <<variant, n, NC, entities, tentities, fentities, fsum, elite,
                 felite, mean, std, std0, base, workers, runs, acc, sel>>

\* A direct call of Next().
SeqNext ==
  /\ variant = "seq" /\ pc = "idle" /\ gen < MaxGen
  /\ SeqBeginNext("Next")
  /\ NoEvolve
  /\ UNCHANGED <<changed, seenBest>>

\* One pass of Next's loop, lines 64-71: two parents, their offspring, its
\* mutation with probability pm, the write into the working buffer.
SeqSlot ==
  /\ pc = "snext" /\ slot < n
  /\ \E a \in Draws, b \in Draws, r \in Draws :
       LET s == seqSelect2(entities, fentities, fsum, a, b) IN
       \E z \in Crossover(s.x, s.y) :
       \E zz \in (IF r < pm THEN Mutate(z) ELSE {z}) :
         tentities' = [tentities EXCEPT ![slot] = zz]
  /\ slot' = slot + 1
  /\ filled' = filled \cup {slot}
  /\ UNCHANGED <<variant, n, NC, entities, fentities, fsum, elite, felite,
                 mean, std, std0, pm, base, workers, pc, caller, ret, ek, emax,
                 ei, ej, efit, eelite, conv, gen, egens, hist, changed,
                 seenBest, runs, acc, sel>>

\* The body of Evolve's loop after Next returned x, and the loop's post
\* statement (ga.go lines 83-85 and 81).
SeqAfterNext(x) ==
  IF caller = "Evolve"
  THEN /\ pc' = "evolve" /\ ret' = "none"
       /\ ei' = (IF x # eelite THEN 0 ELSE ei) + 1
       /\ eelite' = IF x # eelite THEN x ELSE eelite
       /\ ej' = ej + 1
       /\ egens' = egens + 1
       /\ hist' = Append(hist, x # elite)
  ELSE /\ pc' = "idle" /\ ret' = "Next"
       /\ UNCHANGED <<ei, eelite, ej, egens, hist>>

\* The end of Next(), lines 72-74: the buffers swap, fitness(), return.
SeqEndNext ==
  /\ pc = "snext" /\ slot >= n
  /\ LET r == fitnessOf(tentities) IN
     /\ entities' = tentities /\ tentities' = entities
     /\ SetFitness(r)
     /\ changed' = (r.elite # elite)
     /\ seenBest' = Max2(seenBest, BestOf(tentities))
     /\ SeqAfterNext(r.elite)
  /\ UNCHANGED <<variant, n, NC, std0, pm, base, workers, caller, slot, ek,
                 emax, efit, conv, gen, filled, runs, acc, sel>>

\* ---------------------------------------- the concurrent engine (part_000)

\* do(f), lines 169-181: NC goroutines, goroutine c at index c.  A goroutine
\* with no index below n has nothing to run and is done.
Fork(section) ==
  /\ pc' = section
  /\ wpc' = [c \in Workers |-> IF c < n THEN "run" ELSE "done"]
  /\ wi' = [c \in Workers |-> c]
  /\ runs' = [i \in Idx |-> <<>>] /\ acc' = {}

\* do's loop step with i++ for i += NC.
StrideOne(nc) == 1

\* The step of do's loop for nc goroutines, line 176: i += NC.
Stride(nc) == nc

\* The loop step of goroutine c after f(c, i) returned, and wg.Done() when
\* the loop ends.
Advance(c) ==
  /\ wi' = [wi EXCEPT ![c] = wi[c] + Stride(NC)]
  /\ wpc' = [wpc EXCEPT ![c] = IF wi[c] + Stride(NC) < n THEN "run" ELSE "done"]
  /\ runs' = [runs EXCEPT ![wi[c]] = Append(runs[wi[c]], c)]

\* Goroutine c accessed the cells of the set cells: <<mode, array, index>>.
Access(c, cells) == acc' = acc \cup {<<c, a[1], a[2], a[3]>> : a \in cells}

\* The cell of a per-goroutine array (sms, svs, mfs, mes, fsums) that
\* goroutine c of a section works on, always cell 0.
partShared(c) == 0

\* The cell of a per-goroutine array that goroutine c works on: its own
\* (lines 106-110, 134).
part(c) == c

\* wg.Wait() returns: every goroutine has called wg.Done().
Joined == \A c \in Workers : wpc[c] = "done"

\* New(n, g) of part_000, lines 44-55, up to the start of the goroutines
\* that call the factory (do's fork, for the new n and NC), for n in S.
ParNewOf(S) ==
  /\ pc = "start"
  /\ \E nn \in S, nc \in 1 .. MaxNC :
       /\ variant' = "par" /\ n' = nn /\ NC' = nc
       /\ entities' = [i \in 0 .. nn - 1 |-> Nil]
       /\ tentities' = [i \in 0 .. nn - 1 |-> Nil]
       /\ fentities' = [i \in 0 .. nn - 1 |-> 0]
       /\ wpc' = [c \in 0 .. nc - 1 |-> IF c < nn THEN "run" ELSE "done"]
       /\ wi' = [c \in 0 .. nc - 1 |-> c]
       /\ wrx' = [c \in 0 .. nc - 1 |-> 0]
       /\ wz' = [c \in 0 .. nc - 1 |-> Nil]
       /\ sms' = [c \in 0 .. nc - 1 |-> 0]
       /\ svs' = [c \in 0 .. nc - 1 |-> 0]
       /\ mfs' = [c \in 0 .. nc - 1 |-> NegInf]
       /\ mes' = [c \in 0 .. nc - 1 |-> Nil]
       /\ fsums' = [c \in 0 .. nc - 1 |-> 0]
       /\ runs' = [i \in 0 .. nn - 1 |-> <<>>]
  /\ acc' = {}
  /\ felite' = NegInf /\ pm' = ONE \div 10
  /\ pc' = "new" /\ caller' = "New"
  /\ UNCHANGED <<fsum, elite, mean, std, std0, base, mutex, ret, slot, ek,
                 emax, ei, ej, efit, eelite, conv, gen, egens, hist, changed,
                 seenBest, filled, sel>>

ParNew == ParNewOf(Sizes)

\* m.entities[i] = g(), line 54, by goroutine c.
NewWorker(c) ==
  /\ pc = "new" /\ wpc[c] = "run"
  /\ \E e \in Entities :
       /\ entities' = [entities EXCEPT ![wi[c]] = e]
       /\ seenBest' = Max2(seenBest, Fitness(e))
  /\ Access(c, {<<"w", "entities", wi[c]>>})
  /\ Advance(c)
  /\ UNCHANGED <<variant, n, NC, tentities, fentities, fsum, elite, felite,
                 mean, std, std0, pm, base, mutex, wrx, wz, sms, svs,
                 mfs, mes, fsums, driver, gen, egens, hist, changed, filled,
                 sel>>

\* adjust(), lines 99-103: the per-goroutine accumulators, then the
\* goroutines that evaluate the fitness.
BeginAdjust ==
  /\ sms' = [c \in Workers |-> 0]
  /\ svs' = [c \in Workers |-> 0]
  /\ mfs' = [c \in Workers |-> NegInf]
  /\ mes' = [c \in Workers |-> Nil]
  /\ Fork("fit")

\* New, line 56: the factory goroutines have finished; adjust() starts.
JoinNew ==
  /\ pc = "new" /\ Joined
  /\ BeginAdjust
  /\ UNCHANGED <<engine, mutex, wrx, wz, fsums, caller, ret, slot,
                 ek, emax, ei, ej, efit, eelite, conv, gen, egens, hist,
                 changed, seenBest, filled, sel>>

\* The population adjust's first loop reads the entities from (line 104).
fitSource == entities

\* partBetter with the comparison dropped: the last fitness of the
\* goroutine's indices wins.
partBetterLast(cur, f) == TRUE

\* Whether a fitness f replaces goroutine c's maximum so far (line 109).
partBetter(cur, f) == cur < f

\* The body of adjust's first loop, lines 104-111, by goroutine c.
FitWorker(c) ==
  /\ pc = "fit" /\ wpc[c] = "run"
  /\ LET i == wi[c]
         e == fitSource[i]
         f == Fitness(e)
         k == part(c)
     IN /\ fentities' = [fentities EXCEPT ![i] = f]
        /\ sms' = [sms EXCEPT ![k] = sms[k] + f]
        /\ svs' = [svs EXCEPT ![k] = svs[k] + mul(f, f)]
        /\ mfs' = [mfs EXCEPT ![k] = IF partBetter(mfs[k], f) THEN f ELSE mfs[k]]
        /\ mes' = [mes EXCEPT ![k] = IF partBetter(mfs[k], f) THEN e ELSE mes[k]]
        /\ Access(c, {<<"r", "entities", i>>, <<"w", "fentities", i>>,
                      <<"r", "sms", k>>, <<"w", "sms", k>>,
                      <<"r", "svs", k>>, <<"w", "svs", k>>,
                      <<"r", "mfs", k>>, <<"w", "mfs", k>>,
                      <<"w", "mes", k>>})
  /\ Advance(c)
  /\ UNCHANGED <<variant, n, NC, entities, tentities, fsum, elite, felite,
                 mean, std, std0, pm, base, mutex, wrx, wz, fsums,
                 driver, gen, egens, hist, changed, seenBest, filled, sel>>

\* parBetter with the comparison dropped: the best of the generation always
\* becomes the elite.
parBetterAlways(cur, f) == TRUE

\* Whether the best of the generation replaces the elite (line 113).
parBetter(cur, f) == cur < f

\* The mutation probability after one adjust (lines 121-128), for the
\* standard deviation s.
nextPm(p, s, b) ==
  IF b > 0
  THEN LET q == mul(p, mul(ONE \div 5, Exp(div(-5 * s, b))) + (9 * ONE) \div 10)
       IN IF q > ONE \div 10 THEN ONE \div 10
          ELSE IF q < ONE \div 10000 THEN ONE \div 10000
          ELSE q
  ELSE p

\* adjust(), lines 113-131: the elite, mean and std, pm, then the
\* goroutines that rescale the fitness.
JoinFit ==
  /\ pc = "fit" /\ Joined
  /\ LET cf == max(mfs)
         m == IF n = 0 THEN NaN ELSE div(sum(sms), n * ONE)
         v == IF n = 0 THEN NaN ELSE div(sum(svs), n * ONE) - mul(m, m)
         s == IF v # NaN /\ v > 0 THEN Sqrt(v) ELSE ONE
     IN /\ felite' = IF parBetter(felite, cf[2]) THEN cf[2] ELSE felite
        /\ elite' = IF parBetter(felite, cf[2]) THEN mes[cf[1]] ELSE elite
        /\ changed' = (elite' # elite)
        /\ mean' = m /\ std' = s
        /\ pm' = nextPm(pm, s, base)
  /\ fsums' = [c \in Workers |-> 0]
  /\ Fork("sig")
  /\ UNCHANGED <<variant, n, NC, entities, tentities, fentities, fsum, std0,
                 base, mutex, wrx, wz, sms, svs, mfs, mes, caller,
                 ret, slot, ek, emax, ei, ej, efit, eelite, conv, gen, egens,
                 hist, seenBest, filled, sel>>

\* The body of adjust's second loop, lines 132-134, by goroutine c.
SigWorker(c) ==
  /\ pc = "sig" /\ wpc[c] = "run"
  /\ LET i == wi[c]
         f == Logistic(fentities[i], mean, std)
         k == part(c)
     IN /\ fentities' = [fentities EXCEPT ![i] = f]
        /\ fsums' = [fsums EXCEPT ![k] = fsums[k] + f]
        /\ Access(c, {<<"r", "fentities", i>>, <<"w", "fentities", i>>,
                      <<"r", "fsums", k>>, <<"w", "fsums", k>>})
  /\ Advance(c)
  /\ UNCHANGED <<variant, n, NC, entities, tentities, fsum, elite, felite,
                 mean, std, std0, pm, base, mutex, wrx, wz, sms, svs,
                 mfs, mes, driver, gen, egens, hist, changed, seenBest,
                 filled, sel>>

\* evolveCond with i <= k for i < k.
evolveCondOffByOne(i, k, j, mx) == i <= k /\ j < mx

\* evolveCond without the cap on the iterations.
evolveCondNoCap(i, k, j, mx) == i < k

\* Whether Evolve's loop runs once more (ga.go line 81, part_000 line 89).
evolveCond(i, k, j, mx) == i < k /\ j < mx

\* evolveResult one short of k.
evolveResultEarly(i, k) == i + 1 >= k

\* Evolve's result converged (ga.go line 87, part_000 line 95).
evolveResult(i, k) == i >= k

\* The body of Evolve's loop after Next returned the fitness f, and the
\* loop's post statement (part_000 lines 91-93 and 89).
ParAfterNext(f) ==
  IF caller = "Evolve"
  THEN /\ pc' = "evolve" /\ ret' = "none"
       /\ ei' = (IF efit < f THEN 0 ELSE ei) + 1
       /\ efit' = IF efit < f THEN f ELSE efit
       /\ ej' = ej + 1
       /\ egens' = egens + 1
       /\ hist' = Append(hist, changed)
       /\ UNCHANGED base
  ELSE /\ pc' = "idle"
       /\ ret' = caller
       /\ base' = IF caller = "New" THEN std ELSE base
       /\ UNCHANGED <<ei, efit, ej, egens, hist>>

\* parFsum added to the sum of the generation before.
parFsumKept == fsum + sum(fsums)

\* The weight sum adjust stores (line 136).
parFsum == sum(fsums)

\* adjust(), lines 136-137, returns to New (line 56: base) or to Next
\* (line 82), which returns to its caller.
JoinSig ==
  /\ pc = "sig" /\ Joined
  /\ fsum' = parFsum
  /\ ParAfterNext(felite)
  /\ UNCHANGED <<variant, n, NC, entities, tentities, fentities, elite,
                 felite, mean, std, std0, pm, workers, caller, slot, ek, emax,
                 eelite, conv, gen, changed, seenBest, filled, runs, acc,
                 sel>>

\* Next() of part_000, line 72: the goroutines that produce the offspring.
ParBeginNext(who) ==
  /\ Fork("next")
  /\ caller' = who /\ ret' = "none"
  /\ gen' = gen + 1 /\ filled' = {}
  /\ UNCHANGED <<engine, mutex, wrx, wz, sms, svs, mfs, mes, fsums, slot,
                 sel>>

\* A direct call of Next().
ParNext ==
  /\ variant = "par" /\ pc = "idle" /\ gen < MaxGen
  /\ ParBeginNext("Next")
  /\ NoEvolve
  /\ UNCHANGED <<changed, seenBest>>

\* Lock that does not wait for the mutex.
LockNoWait(c) == mutex' = c

\* m.mutex.Lock() in rand(), line 164: it returns once the mutex is free.
Lock(c) == mutex = -1 /\ mutex' = c

\* Goroutine c is inside m.rnd.Float64(), line 166.
Drawing(c) == wpc[c] \in {"rx", "ry", "r"}

\* rand() is entered by goroutine c: for rx and ry (line 141) and for the
\* mutation draw (line 75).
RandLock(c) ==
  /\ pc = "next" /\ wpc[c] \in {"run", "ry_wait", "r_wait"}
  /\ Lock(c)
  /\ wpc' = [wpc EXCEPT ![c] = CASE wpc[c] = "run" -> "rx"
                                 [] wpc[c] = "ry_wait" -> "ry"
                                 [] OTHER -> "r"]
  /\ UNCHANGED <<engine, wi, wrx, wz, sms, svs, mfs, mes, fsums,
                 driver, history>>

\* select2() of part_000, lines 145-160: the scan from index i on.
RECURSIVE parSelScan(_, _, _, _, _, _)
parSelScan(ents, fents, i, st, d, ry) ==
  IF i >= Cardinality(DOMAIN fents) THEN st
  ELSE LET f == fents[i] IN
       IF st.fz <= f
       THEN IF st.isx
            THEN parSelScan(ents, fents, i + 1,
                            [st EXCEPT !.x = ents[i], !.wx = f, !.isx = FALSE,
                                       !.xi = i,
                                       !.fz = st.fz + d - mul(f, ry)],
                            d, ry)
            ELSE [st EXCEPT !.y = ents[i], !.wy = f, !.yi = i]
       ELSE parSelScan(ents, fents, i + 1, [st EXCEPT !.fz = st.fz - f], d, ry)

\* select2() after its two draws a and b: x, y and the blend weight w.
parSelect2(ents, fents, fs, a, b) ==
  LET rx == IF a > b THEN b ELSE a
      ry == IF a > b THEN a ELSE b
      nn == Cardinality(DOMAIN ents)
      s == parSelScan(ents, fents, 0,
                      [fz |-> mul(fs, rx), isx |-> TRUE,
                       x |-> ents[0], y |-> yDefault(ents),
                       wx |-> 0, wy |-> 0, xi |-> -1, yi |-> -1],
                      mul(fs, ry - rx), ry)
  IN [x |-> s.x, y |-> s.y, xi |-> s.xi, yi |-> s.yi, wx |-> s.wx,
      wy |-> s.wy,
      w |-> IF s.wx + s.wy = 0 THEN NaN ELSE div(s.wx, s.wx + s.wy)]

\* m.mutex.Unlock(), deferred in rand() (line 165).
Unlock(c) == mutex' = -1

\* rand() returns select2's first draw (line 141): m.rnd.Float64() and the
\* deferred Unlock.
DrawRx(c) ==
  /\ pc = "next" /\ wpc[c] = "rx"
  /\ \E v \in Draws : wrx' = [wrx EXCEPT ![c] = v]
  /\ Unlock(c)
  /\ wpc' = [wpc EXCEPT ![c] = "ry_wait"]
  /\ Access(c, {<<"w", "rnd", mutex>>})
  /\ UNCHANGED <<engine, wi, wz, sms, svs, mfs, mes, fsums, driver, gen,
                 egens, hist, changed, seenBest, filled, runs, sel>>

\* rand() returns select2's second draw; then, up to the next rand(), the
\* goroutine works on its own: select2's scan (lines 142-160) and the
\* crossover (line 74).
DrawRy(c) ==
  /\ pc = "next" /\ wpc[c] = "ry"
  /\ \E v \in Draws :
       LET s == parSelect2(entities, fentities, fsum, wrx[c], v) IN
       \E z \in CrossoverW(s.x, s.y, s.w) :
         wz' = [wz EXCEPT ![c] = z]
  /\ Unlock(c)
  /\ wrx' = [wrx EXCEPT ![c] = 0]
  /\ wpc' = [wpc EXCEPT ![c] = "r_wait"]
  /\ Access(c, {<<"w", "rnd", mutex>>, <<"r", "fsum", 0>>}
                \cup {<<"r", "entities", i>> : i \in Idx}
                \cup {<<"r", "fentities", i>> : i \in Idx})
  /\ UNCHANGED <<engine, wi, sms, svs, mfs, mes, fsums, driver, gen, egens,
                 hist, changed, seenBest, filled, runs, sel>>

\* StoreOffspring writing the live population in place.
StoreInPlace(i, z) ==
  /\ entities' = [entities EXCEPT ![i] = z]
  /\ UNCHANGED tentities

\* m.tentities[i] = z, line 78: the offspring goes to the working buffer.
StoreOffspring(i, z) ==
  /\ tentities' = [tentities EXCEPT ![i] = z]
  /\ UNCHANGED entities

\* rand() returns the mutation draw (line 75); then the mutation with
\* probability pm, the write of the offspring (lines 75-78) and the loop
\* step of do.
DrawR(c) ==
  /\ pc = "next" /\ wpc[c] = "r"
  /\ \E v \in Draws :
     \E zz \in (IF v < pm THEN Mutate(wz[c]) ELSE {wz[c]}) :
       StoreOffspring(wi[c], zz)
  /\ Unlock(c)
  /\ wz' = [wz EXCEPT ![c] = Nil]
  /\ filled' = filled \cup {wi[c]}
  /\ Access(c, {<<"w", "rnd", mutex>>, <<"r", "pm", 0>>,
                <<"w", "tentities", wi[c]>>})
  /\ Advance(c)
  /\ UNCHANGED <<variant, n, NC, fentities, fsum, elite, felite, mean, std,
                 std0, pm, base, wrx, sms, svs, mfs, mes, fsums, driver, gen,
                 egens, hist, changed, seenBest, sel>>

\* Next, lines 80-81: all goroutines have finished; the buffers swap and
\* adjust() starts.
JoinNext ==
  /\ pc = "next" /\ Joined
  /\ entities' = tentities /\ tentities' = entities
  /\ seenBest' = Max2(seenBest, BestOf(tentities))
  /\ BeginAdjust
  /\ UNCHANGED <<variant, n, NC, fentities, fsum, elite, felite, mean, std,
                 std0, pm, base, mutex, wrx, wz, fsums, caller, ret,
                 slot, ek, emax, ei, ej, efit, eelite, conv, gen, egens, hist,
                 changed, filled, sel>>

\* ------------------------------------------------------ the Evolve driver

\* Evolve(k, max) is called: i, j and the local elite / fitness (ga.go line
\* 80, part_000 line 88).  A call is made only when the run's budget of
\* generation steps covers its max.
EvolveCall ==
  /\ pc = "idle"
  /\ \E k \in Ks, mx \in Maxes :
       /\ gen + mx <= MaxGen
       /\ ek' = k /\ emax' = mx
  /\ ei' = 0 /\ ej' = 0
  /\ efit' = IF variant = "par" THEN felite ELSE NegInf
  /\ eelite' = IF variant = "seq" THEN elite ELSE Nil
  /\ pc' = "evolve" /\ caller' = "Evolve" /\ ret' = "none"
  /\ conv' = FALSE
  /\ egens' = 0 /\ hist' = <<>>
  /\ UNCHANGED <<engine, workers, slot, gen, changed, seenBest, filled, runs,
                 acc, sel>>

\* The loop condition holds: the next generation step starts.
EvolveStep ==
  /\ pc = "evolve" /\ evolveCond(ei, ek, ej, emax)
  /\ IF variant = "seq" THEN SeqBeginNext("Evolve") ELSE ParBeginNext("Evolve")
  /\ UNCHANGED <<ek, emax, ei, ej, efit, eelite, conv, egens, hist, changed,
                 seenBest>>

\* The loop condition fails: Evolve returns (ga.go line 87, part_000 line 95).
EvolveReturn ==
  /\ pc = "evolve" /\ ~evolveCond(ei, ek, ej, emax)
  /\ conv' = evolveResult(ei, ek)
  /\ pc' = "idle" /\ ret' = "Evolve"
  /\ UNCHANGED <<engine, workers, caller, slot, ek, emax, ei, ej, efit, eelite,
                 history>>

Next ==
  \/ SeqNew \/ SeqNext \/ SeqSlot \/ SeqEndNext
  \/ ParNew \/ JoinNew \/ JoinFit \/ JoinSig \/ ParNext \/ JoinNext
  \/ \E c \in Workers :
       \/ NewWorker(c) \/ FitWorker(c) \/ SigWorker(c)
       \/ RandLock(c) \/ DrawRx(c) \/ DrawRy(c) \/ DrawR(c)
  \/ EvolveCall \/ EvolveStep \/ EvolveReturn

Spec == Init /\ [][Next]_vars

\* ------------------------------------------------ Evolve with scheduling

\* The steps the engine takes by itself once New, Next or Evolve was called:
\* the loops of the sequential engine, the goroutines of the concurrent one
\* and their joins, and Evolve's loop.
Run ==
  \/ SeqSlot \/ SeqEndNext
  \/ JoinNew \/ JoinFit \/ JoinSig \/ JoinNext
  \/ \E c \in Workers :
       \/ NewWorker(c) \/ FitWorker(c) \/ SigWorker(c)
       \/ RandLock(c) \/ DrawRx(c) \/ DrawRy(c) \/ DrawR(c)
  \/ EvolveStep \/ EvolveReturn

\* An engine that is only driven through Evolve after New.
NextEvolve == SeqNew \/ ParNew \/ EvolveCall \/ Run

\* The scheduling: a call that can take a step takes one eventually (the Go
\* scheduler runs every runnable goroutine, and the entity operations
\* terminate); the caller is not obliged to make another call.
SpecEvolve == Init /\ [][NextEvolve]_vars /\ WF_vars(Run)

\* ------------------------------------------- a wider concurrent engine

\* The concurrent engine with a population larger than the number of
\* goroutines, so that a goroutine runs do's loop more than once: New, and
\* then one direct call of Next().
ParNewWide == ParNewOf(WideSizes)

ParNextWide == ret = "New" /\ ParNext

NextWide ==
  \/ ParNewWide \/ JoinNew \/ JoinFit \/ JoinSig \/ ParNextWide \/ JoinNext
  \/ \E c \in Workers :
       \/ NewWorker(c) \/ FitWorker(c) \/ SigWorker(c)
       \/ RandLock(c) \/ DrawRx(c) \/ DrawRy(c) \/ DrawR(c)

SpecWide == Init /\ [][NextWide]_vars

\* ----------------------------- populations of one fitness value

\* The sequential engine on a population that a factory of one entity
\* filled: New, and then one direct call of Next().
SeqNewEq == SeqNewOf(EqSizes, Entities \cup Probes, TRUE)

SeqNextEq == ret = "New" /\ SeqNext

NextEq == SeqNewEq \/ SeqNextEq \/ SeqSlot \/ SeqEndNext

SpecEq == Init /\ [][NextEq]_vars

\* --------------------------------------------------- select2 alone

\* An engine at rest, as far as select2 reads it: the population, the
\* weights and their sum.
InitSel ==
  /\ variant \in {"seq", "par"} /\ pc = "sel"
  /\ n \in 1 .. SelN /\ NC = 1
  /\ entities \in [0 .. n - 1 -> SelEntities]
  /\ tentities = [i \in 0 .. n - 1 |-> Nil]
  /\ fentities \in [0 .. n - 1 -> Weights]
  /\ fsum \in {sum(fentities) + e : e \in -SumErr .. SumErr}
  /\ elite = Nil /\ felite = NegInf
  /\ NoCall
  /\ mean = 0 /\ std = ONE /\ std0 = ONE /\ pm = 0 /\ base = ONE

\* select2() of ga.go is called (Next, line 65) and returns.
SelSeq ==
  /\ pc = "sel" /\ variant = "seq"
  /\ \E a \in SelDraws, b \in SelDraws :
       LET s == seqSelect2(entities, fentities, fsum, a, b) IN
       sel' = [fn |-> "seq", a |-> a, b |-> b, x |-> s.x, y |-> s.y,
               xi |-> s.xi, yi |-> s.yi, wx |-> 0, wy |-> 0, w |-> 0]
  /\ UNCHANGED <<engine, workers, driver, gen, egens, hist, changed, seenBest,
                 filled, runs, acc>>

\* select2() of part_000 is called (Next, line 73) and returns.
SelPar ==
  /\ pc = "sel" /\ variant = "par"
  /\ \E a \in SelDraws, b \in SelDraws :
       LET s == parSelect2(entities, fentities, fsum, a, b) IN
       sel' = [fn |-> "par", a |-> a, b |-> b, x |-> s.x, y |-> s.y,
               xi |-> s.xi, yi |-> s.yi, wx |-> s.wx, wy |-> s.wy, w |-> s.w]
  /\ UNCHANGED <<engine, workers, driver, gen, egens, hist, changed, seenBest,
                 filled, runs, acc>>

NextSel == SelSeq \/ SelPar

SpecSel == InitSel /\ [][NextSel]_vars

\* ------------------------------------- the mutation probability alone

\* The mutation probability over a sequence of generations, each with a
\* population of some standard deviation.  The state holds what the two laws
\* read and write: the baseline that construction took from the first
\* population (std0, base), the standard deviation of the live population
\* and pm; the population itself is left out.
InitPm ==
  /\ variant \in {"seq", "par"} /\ pc = "pm"
  /\ NoPopulation /\ NoCall
  /\ mean = 0
  /\ std \in Stds
  /\ std0 = (IF variant = "seq" THEN std ELSE 0)
  /\ base = (IF variant = "par" THEN std ELSE 0)
  /\ pm = (IF variant = "par" THEN ONE \div 10 ELSE 0)

\* A generation step of ga.go: line 63 takes pm from the standard deviation
\* of the live population; fitness() then leaves that of the new one.
PmSeq ==
  /\ pc = "pm" /\ variant = "seq" /\ gen < PmSteps
  /\ pm' = seqPm(std, std0)
  /\ \E s \in Stds : std' = s
  /\ gen' = gen + 1
  /\ UNCHANGED <<variant, n, NC, entities, tentities, fentities, fsum, elite,
                 felite, mean, std0, base, workers, driver, egens, hist,
                 changed, seenBest, filled, runs, acc, sel>>

\* A generation step of part_000: adjust() computes the standard deviation
\* of the new population and updates pm with it (lines 117-128).
PmPar ==
  /\ pc = "pm" /\ variant = "par" /\ gen < PmSteps
  /\ \E s \in Stds :
       /\ std' = s
       /\ pm' = nextPm(pm, s, base)
  /\ gen' = gen + 1
  /\ UNCHANGED <<variant, n, NC, entities, tentities, fentities, fsum, elite,
                 felite, mean, std0, base, workers, driver, egens, hist,
                 changed, seenBest, filled, runs, acc, sel>>

NextPm == PmSeq \/ PmPar

SpecPm == InitPm /\ [][NextPm]_vars

\* ------------------------------------------------------------- the claims

\* An engine exists and no call is running in it.
AtRest == variant # "none" /\ pc = "idle"

\* Evolve has just returned.
Evolved == pc = "idle" /\ ret = "Evolve"

\* No generation of the Evolve call changed the elite.
NoChange == \A t \in 1 .. Len(hist) : ~hist[t]

\* C1: the elite fitness never decreases: every step of the engine, and so
\* every Next() call made directly or by Evolve, leaves an elite fitness that
\* is at least the one before it.
C1_EliteFitnessMonotone == [][felite' >= felite]_vars

\* C1, its case: Next() has returned a generation whose best entity is
\* worse than the elite, and the elite fitness stayed.
C1_Witness ==
  /\ AtRest /\ ret = "Next" /\ n >= 1
  /\ BestOf(entities) < felite

\* C2 as stated: with k >= max, Evolve runs exactly max generations and
\* returns converged = false (here on a population of two or more and for
\* max >= 1).
C2_Original ==
  (Evolved /\ n >= 2 /\ ek >= emax /\ emax >= 1) => (egens = emax /\ ~conv)

\* C2 amended: with k >= max >= 0 Evolve runs exactly max generations; with
\* k > max >= 0 it returns converged = false; with k = max >= 0 it returns
\* converged = true if no generation changed the elite.
C2_KAboveMax ==
  /\ (Evolved /\ ek >= emax /\ emax >= 0) => egens = emax
  /\ (Evolved /\ ek > emax /\ emax >= 0) => ~conv
  /\ (Evolved /\ ek = emax /\ emax >= 0 /\ NoChange) => conv

\* C2, its case: Evolve(k, max) with k > max >= 1 has returned after a
\* generation that changed the elite.
C2_Witness ==
  /\ Evolved /\ ek > emax /\ emax >= 1
  /\ \E t \in 1 .. Len(hist) : hist[t]

\* C3: converged = true only if each of the last k generations of this
\* Evolve call left the elite unchanged (here on a population of two or
\* more).
C3_ConvergedAfterKStagnant ==
  (Evolved /\ n >= 2 /\ conv) =>
    /\ Len(hist) >= ek
    /\ \A t \in 1 .. Len(hist) : t > Len(hist) - ek => ~hist[t]

\* C4: if no generation changes the elite, Evolve(k, max) with 1 <= k < max
\* runs exactly k generations and returns converged = true.
C4_StagnantConverges ==
  (Evolved /\ 1 <= ek /\ ek < emax /\ NoChange) => (egens = ek /\ conv)

\* C4, its case: such an Evolve call has returned.
C4_Witness ==
  /\ Evolved /\ 1 <= ek /\ ek < emax /\ NoChange
  /\ Len(hist) = ek /\ n >= 2

\* C5: New(n, g) with n < 2 returns no engine.
C5_SmallPopulationRejected == AtRest => n >= 2

\* New or Next has returned: to its caller, or to Evolve's loop.
Returned == variant # "none" /\ pc \in {"idle", "evolve"}

\* C6: after construction and after every Next() the elite fitness is the
\* largest fitness of any entity of any population the engine has held.
C6_EliteIsBestSeen == Returned => felite = seenBest

\* C6, its case: after two generations the elite is an entity that neither
\* the live population nor the one before it holds.
C6_Witness ==
  /\ AtRest /\ gen >= 2 /\ n >= 2
  /\ BestOf(entities) < felite /\ BestOf(tentities) < felite

\* C7: a step changes the elite only to an entity of strictly greater
\* fitness; a generation whose best fitness is at most the elite fitness
\* leaves the same entity as elite.
C7_EliteKeptUnlessBeaten ==
  [][/\ BestOf(entities') <= felite => elite' = elite
     /\ elite' # elite => Fitness(elite') > felite]_vars

\* C7, its case: Next() has returned a generation that holds an entity
\* tying with the elite and not the elite itself, and the elite stayed.
C7_Witness ==
  /\ AtRest /\ ret = "Next" /\ ~changed
  /\ \A i \in Idx : entities[i] # elite
  /\ \E i \in Idx : Fitness(entities[i]) = felite

\* A generation step is producing offspring.
InStep == pc \in {"next", "snext"}

\* C8: while a generation step produces offspring the live population, the
\* weights, the weight sum and pm are not written, and the step leaves that
\* phase (the buffers swap) only when every goroutine has finished and
\* every slot of the working buffer was written.
C8_GenerationIsolation ==
  [][InStep =>
       /\ pc' = pc =>
            /\ entities' = entities /\ fentities' = fentities
            /\ fsum' = fsum /\ pm' = pm
       /\ pc' # pc =>
            /\ filled = Idx
            /\ variant = "par" => Joined]_vars

\* C8, its case: a goroutine is about to select parents while another
\* goroutine has already written its offspring, which differs from the
\* entity the live population holds at that slot.
C8_Witness ==
  /\ variant = "par" /\ pc = "next"
  /\ \E c \in Workers : wpc[c] = "ry"
  /\ \E i \in filled : tentities[i] # entities[i]

\* The raw fitness of the live population.
Raw == [i \in Idx |-> Fitness(entities[i])]

\* The mean and the standard deviation adjust computes for the population.
ParMean == IF n = 0 THEN NaN ELSE div(sum(Raw), n * ONE)
ParVar ==
  IF n = 0 THEN NaN
  ELSE div(sum([i \in Idx |-> mul(Raw[i], Raw[i])]), n * ONE)
       - mul(ParMean, ParMean)
ParStd == IF ParVar # NaN /\ ParVar > 0 THEN Sqrt(ParVar) ELSE ONE

\* C9: whenever New or Next has returned, every weight is the logistic
\* weight of the entity at its index, with the mean and std of the live
\* population, and the weight sum is the sum of the weights.
C9_WeightsMatchPopulation ==
  Returned =>
    /\ variant = "seq" =>
         /\ mean = fitnessOf(entities).mean /\ std = fitnessOf(entities).std
         /\ \A i \in Idx : fentities[i] = Logistic(Raw[i], mean, std)
    /\ variant = "par" =>
         /\ mean = ParMean /\ std = ParStd
         /\ \A i \in Idx : fentities[i] = Logistic(Raw[i], ParMean, ParStd)
    /\ fsum = sum(fentities)

\* C9, its case: Next() has returned a population that differs at every
\* index from the one swapped out, and the weights differ among themselves.
C9_Witness ==
  /\ AtRest /\ ret = "Next" /\ n >= 2
  /\ \A i \in Idx : entities[i] # tentities[i]
  /\ \E i, j \in Idx : fentities[i] # fentities[j]

\* C10: no two goroutines are inside the generator's draw at once, and a
\* goroutine inside it holds the mutex.
C10_DrawsSerialized ==
  variant = "par" =>
    \A c \in Workers :
      Drawing(c) =>
        /\ mutex = c
        /\ \A d \in Workers : Drawing(d) => d = c

\* C10, its case: a goroutine is inside the draw while another goroutine
\* is at rand()'s Lock.
C10_Witness ==
  /\ variant = "par" /\ pc = "next"
  /\ \E c, d \in Workers :
       /\ c # d /\ Drawing(c)
       /\ wpc[d] \in {"run", "ry_wait", "r_wait"}

\* A generation step of the concurrent engine has swapped the buffers: its
\* adjust() runs, or Next() has returned to a direct caller.
AfterParNext ==
  /\ variant = "par"
  /\ \/ pc \in {"fit", "sig"} /\ caller # "New"
     \/ pc = "idle" /\ ret = "Next"

\* C11: in every parallel loop each index is run at most once, and only by
\* goroutine i mod NC; when the loop has joined, every index 0..n-1 was run
\* exactly once; and after the swap of a generation step the live population
\* has the n slots 0..n-1, each written in that step and none left unset.
C11_EveryIndexOnce ==
  /\ variant = "par" =>
       /\ \A i \in Idx : runs[i] = <<>> \/ runs[i] = <<i % NC>>
       /\ Joined => \A i \in Idx : runs[i] = <<i % NC>>
  /\ AfterParNext =>
       /\ DOMAIN entities = Idx /\ filled = Idx
       /\ \A i \in Idx : entities[i] # Nil

\* C11, its case: Next() has returned for a population larger than the
\* number of goroutines, with two goroutines or more, so that goroutine 0
\* ran index 0 and index NC.
C11_Witness ==
  /\ AtRest /\ ret = "Next" /\ NC >= 2 /\ n > NC
  /\ runs[0] = <<0>> /\ runs[NC] = <<0>>

\* C12: the mutation probability a generation step uses is greater than 0
\* and at most 1; in the concurrent engine it is between 0.0001 and 0.1
\* after construction and after every adjust().
C12_PmInRange ==
  pc = "pm" =>
    /\ gen >= 1 => (pm > 0 /\ pm <= ONE)
    /\ variant = "par" => (pm >= ONE \div 10000 /\ pm <= ONE \div 10)

\* Every entity of the live population has the same fitness.
AllEqual == \A i, j \in Idx : Fitness(entities[i]) = Fitness(entities[j])

\* C13: whenever New or Next has returned with a population whose entities
\* all have the same fitness, the standard deviation is 1 (the variance was
\* not positive), and so is the baseline std0 that New took from it.
C13_EqualFitnessStdOne ==
  (Returned /\ n >= 1 /\ AllEqual) =>
    /\ std = ONE
    /\ (variant = "seq" /\ ret = "New") => std0 = ONE

\* The populations of the live population's size with two fitness values
\* or more.
Unequal ==
  {ents \in [Idx -> Entities] :
     \E i, j \in Idx : Fitness(ents[i]) # Fitness(ents[j])}

\* C14 (on a population of two or more): a generation whose population has
\* all-equal fitness does not lower
\* pm in the concurrent engine (adjust leaves pm at least what it was), and
\* in the sequential engine the pm taken from it is at least the pm any
\* population of unequal fitness would give with the same baseline.
C14_CollapseRaisesPm ==
  [][/\ (variant = "par" /\ pc = "fit" /\ pc' = "sig" /\ caller # "New"
         /\ n >= 2 /\ AllEqual)
          => pm' >= pm
     /\ (variant = "seq" /\ pc # "snext" /\ pc' = "snext" /\ n >= 2
         /\ AllEqual)
          => \A ents \in Unequal :
               pm' >= seqPm(fitnessOf(ents).std, std0)]_vars

\* The first index at or after i whose weight is at least the target t,
\* the target losing the weight of every index passed over; index -1 when
\* there is none.
RECURSIVE hitFrom(_, _, _)
hitFrom(fents, i, t) ==
  IF i >= Cardinality(DOMAIN fents) THEN [i |-> -1, t |-> t]
  ELSE IF t <= fents[i] THEN [i |-> i, t |-> t]
  ELSE hitFrom(fents, i + 1, t - fents[i])

\* The two draws of the recorded select2 call, in order.
SelLow == IF sel.a > sel.b THEN sel.b ELSE sel.a
SelHigh == IF sel.a > sel.b THEN sel.a ELSE sel.b

\* The first index that satisfies the scan's condition, and the next one
\* that satisfies it for the corrected target.
FirstHit == hitFrom(fentities, 0, mul(fsum, SelLow))
SecondHit ==
  IF FirstHit.i = -1 THEN FirstHit
  ELSE hitFrom(fentities, FirstHit.i + 1,
               FirstHit.t + mul(fsum, SelHigh - SelLow)
                 - mul(fentities[FirstHit.i], SelHigh))

\* C15: select2 takes x from the first index that satisfies the condition
\* and never reassigns it; y comes from the next index that satisfies the
\* corrected target, so an index y is taken from lies after that of x.
C15_FirstHitIsX ==
  sel.fn # "none" =>
    /\ sel.xi = FirstHit.i
    /\ sel.yi = SecondHit.i
    /\ sel.xi # -1 => sel.x = entities[sel.xi]
    /\ sel.yi # -1 => (sel.y = entities[sel.yi] /\ sel.yi > sel.xi)

\* C16: select2 returns two entities of the live population, taken from
\* indices within 0..n-1: the first and the last member when no index
\* satisfies the condition, and the last member as y when the scan took no
\* y.
C16_ReturnsMembers ==
  sel.fn # "none" =>
    /\ \E i \in Idx : sel.x = entities[i]
    /\ \E i \in Idx : sel.y = entities[i]
    /\ sel.xi \in -1 .. n - 1 /\ sel.yi \in -1 .. n - 1
    /\ FirstHit.i = -1 => (sel.x = entities[0] /\ sel.y = entities[n - 1])
    /\ sel.yi = -1 => sel.y = entities[n - 1]

\* C16, its case: the scan of the concurrent select2 ended without any
\* index satisfying the condition, on a population whose first and last
\* member differ.
C16_Witness ==
  /\ sel.fn = "par" /\ n >= 2 /\ entities[0] # entities[n - 1]
  /\ sel.xi = -1 /\ sel.yi = -1

\* C17 (on a population of two or more): the blend weight the concurrent
\* select2 returns is a number between 0 and 1, and it is wx / (wx + wy) for
\* the weights of the indices that x and y were taken from.
C17_BlendWeightDefined ==
  (sel.fn = "par" /\ n >= 2) =>
    /\ sel.w # NaN /\ sel.w >= 0 /\ sel.w <= ONE
    /\ sel.wx + sel.wy > 0 /\ sel.w = div(sel.wx, sel.wx + sel.wy)

\* C18: within one parallel section no cell of an array (or field) that a
\* goroutine writes is read or written by another goroutine, except the
\* random source, and that one is accessed only by the goroutine that holds
\* the mutex.
C18_NoSharedCell ==
  variant = "par" =>
    /\ \A p \in acc : p[3] = "rnd" => p[4] = p[1]
    /\ \A p, q \in acc :
         (p[1] # q[1] /\ p[3] = q[3] /\ p[4] = q[4] /\ p[3] # "rnd")
           => (p[2] = "r" /\ q[2] = "r")

\* C18, its case: in a generation step two goroutines have drawn from the
\* random source, one of them has written offspring to two slots of the
\* working buffer and the other to one.
C18_Witness ==
  /\ variant = "par" /\ pc = "next"
  /\ \E c, d \in Workers :
       /\ c # d
       /\ <<c, "w", "rnd", c>> \in acc /\ <<d, "w", "rnd", d>> \in acc
       /\ \E i, j \in Idx :
            /\ i # j
            /\ <<c, "w", "tentities", i>> \in acc
            /\ <<c, "w", "tentities", j>> \in acc
       /\ \E i \in Idx : <<d, "w", "tentities", i>> \in acc

\* C19: whenever New, Next or Evolve has returned, the elite fitness is the
\* fitness of the elite entity (an engine without any entity has no elite
\* and the elite fitness -Inf), and what Evolve returns from its own
\* variables is that pair: the fitness it tracked in the concurrent engine,
\* the elite it tracked in the sequential one.
C19_EliteAndFitnessPaired ==
  Returned =>
    /\ n >= 1 => (elite # Nil /\ felite = Fitness(elite))
    /\ n = 0 => (elite = Nil /\ felite = NegInf)
    /\ (Evolved /\ variant = "par") => efit = felite
    /\ (Evolved /\ variant = "seq") => eelite = elite

\* C19, its case: Evolve of the concurrent engine has stopped on the
\* iteration cap, after a generation whose best entity was found by a
\* goroutine other than goroutine 0 and became the elite.
C19_Witness ==
  /\ Evolved /\ variant = "par" /\ NC >= 2 /\ n >= 2
  /\ ~conv /\ egens = emax /\ emax >= 1
  /\ changed /\ max(mfs)[1] >= 1

\* Evolve was called and has not returned.
InEvolve == caller = "Evolve" /\ pc # "idle"

\* C20 as stated (here on a population of two or more): Evolve(k, max) runs
\* at most max generation steps, returns converged = false only after
\* exactly max steps, and runs no step when k <= 0 or max <= 0.
C20_Original ==
  (caller = "Evolve" /\ n >= 2) =>
    /\ egens <= emax
    /\ (Evolved /\ ~conv) => egens = emax
    /\ (ek <= 0 \/ emax <= 0) => egens = 0

\* The generation steps of the running or last Evolve call are those its
\* counter j counts, at most max of them and none for max <= 0 or k <= 0;
\* converged = false is returned only after max steps, or after none for
\* max <= 0.
EvolveBound ==
  caller = "Evolve" =>
    /\ egens = ej /\ egens <= Max2(0, emax)
    /\ (Evolved /\ ~conv) => egens = Max2(0, emax)
    /\ (ek <= 0 \/ emax <= 0) => egens = 0

\* C20 amended: every Evolve(k, max) call returns, after at most max steps
\* for max >= 0 and after none for max < 0; it returns converged = false
\* only if it ran exactly max steps (none for max < 0); it runs no step when
\* k <= 0 or max <= 0.
C20_EvolveTerminates == []EvolveBound /\ (InEvolve ~> Evolved)

\* C20, its case: Evolve(k, max) with a negative max has returned converged
\* = false without a step, on a population of two or more.
C20_Witness ==
  /\ Evolved /\ n >= 2 /\ emax < 0 /\ ek >= 1
  /\ ~conv /\ egens = 0

====
